---- MODULE Spec2Model ----
(***************************************************************************)
(* Model of src/src/app.js: the six-agent paper screening workflow run by  *)
(* POST /screen-papers.  One run of the handler is modelled: the request   *)
(* body, the WorkflowState object, the position of the workflow in the     *)
(* graph built by createWorkflow, the loop locals of the two per-document  *)
(* agents, the call in flight to the Gemini model and the HTTP response.   *)
(*                                                                         *)
(* The batch size (50 in app.js:37) and the selection size (10 in          *)
(* app.js:425-430) are scaled down to ExpectedPapers and TopN so that the  *)
(* reachable states can be enumerated; the 6 criteria and the scoring      *)
(* numbers are the program's own.                                          *)
(***************************************************************************)
EXTENDS Integers, Sequences, FiniteSets, TLC

\* ---------------------------------------------------------------- bounds
\* Stand-in for the 50 of `state.inputPapers.length !== 50` (app.js:37).
ExpectedPapers == 3
\* Stand-in for the 10 of `eligiblePapers.length >= 10`, `slice(0, 10)` and
\* `10 - eligiblePapers.length` (app.js:425-430).
TopN == 2

\* ----------------------------------------------------- program constants
\* `criteria.length !== 6` (app.js:185), `evaluations.length !== 6` (app.js:254)
NumCriteria == 6
\* `paper.abstract.substring(0, 200)` (app.js:109)
SummaryLen == 200

Min(a, b) == IF a < b THEN a ELSE b

\* ------------------------------------------------------------- documents
\* A text is modelled as a sequence of character codes; the empty text and
\* the missing field are both falsy in `!paper.title || !paper.abstract`.
Missing == <<>>
TitleOf(p) == <<p>>
AbstractOf(p) == <<p, p>>
Document(p, hasTitle, hasAbstract) ==
    [title    |-> IF hasTitle THEN TitleOf(p) ELSE Missing,
     abstract |-> IF hasAbstract THEN AbstractOf(p) ELSE Missing]

\* The batches a client can post: ExpectedPapers documents each with or
\* without its title and abstract, and complete documents in a batch that
\* is one short, one long or empty.
Batches ==
    { [p \in 1..ExpectedPapers |-> Document(p, ht[p], ha[p])] :
        ht \in [1..ExpectedPapers -> BOOLEAN], ha \in [1..ExpectedPapers -> BOOLEAN] }
    \cup { [p \in 1..n |-> Document(p, TRUE, TRUE)] :
            n \in {0, ExpectedPapers - 1, ExpectedPapers + 1} }

\* Request bodies: `papers` is an array (a batch) or it is not (app.js:483).
Bodies ==
    { [isArray |-> TRUE, papers |-> b] : b \in Batches }
    \cup { [isArray |-> FALSE, papers |-> <<>>] }

\* MissingFields that forgets the abstract.
MissingTitleOnly(paper) == paper.title = Missing

\* ------------------------------------------------------ agent 1 (pure part)
\* `!paper.title || !paper.abstract` (app.js:44)
MissingFields(paper) == paper.title = Missing \/ paper.abstract = Missing

\* The 1-based number `i + 1` of the first paper the loop of app.js:42-47
\* rejects, 0 when it rejects none.
FirstMissing(papers) ==
    IF \E k \in 1..Len(papers) : MissingFields(papers[k])
    THEN CHOOSE k \in 1..Len(papers) :
            /\ MissingFields(papers[k])
            /\ \A j \in 1..(k - 1) : ~MissingFields(papers[j])
    ELSE 0

\* WrongCount that only rejects a batch that is too small.
WrongCountTooFewOnly(papers) == Len(papers) < ExpectedPapers

\* `state.inputPapers.length !== 50` (app.js:37)
WrongCount(papers) == Len(papers) # ExpectedPapers

\* The error agent1_processInput throws, NoError when it throws none.
NoError == [kind |-> "none", paper |-> 0]
ValidationError(papers) ==
    IF WrongCount(papers)
    THEN [kind |-> "Expected exactly 50 research papers", paper |-> 0]
    ELSE IF FirstMissing(papers) # 0
    THEN [kind |-> "Paper missing required fields: title, or abstract",
          paper |-> FirstMissing(papers)]
    ELSE NoError

\* ------------------------------------------------------ gateway replies
\* What `await model.invoke(...)` can produce: the call rejects ("throw"),
\* or it resolves with a text that JSON.parse rejects ("unparsable") or
\* parses to the JSON value `value`.  A JSON value carries its type in the
\* field json; an object's own properties are the other fields.
Throw == [kind |-> "throw"]
Unparsable == [kind |-> "unparsable"]
Parsed(v) == [kind |-> "parsed", value |-> v]
JsonNull == [json |-> "null"]
JsonNumber == [json |-> "number"]

\* Replies to the metadata prompt of app.js:69-96: a metadata object, or
\* one of the malformed replies.
MetadataObject(paper) ==
    [json |-> "object", title |-> paper.title, research_domain |-> "Healthcare"]
WellFormedMetadataReplies(paper) == { Parsed(MetadataObject(paper)) }
MetadataReplies(paper) ==
    WellFormedMetadataReplies(paper)
    \cup { Throw, Unparsable, Parsed(JsonNull), Parsed(JsonNumber) }

\* Replies to the criteria prompt of app.js:152-181: an array of n
\* criteria with ids 1..n, an array of 6 nulls, an object, or malformed.
Criterion(c) == [json |-> "object", id |-> c, criterion |-> <<c>>, description |-> <<c>>]
CriteriaArray(n) == [c \in 1..n |-> Criterion(c)]
WellFormedCriteriaReplies == { Parsed([json |-> "array", items |-> CriteriaArray(NumCriteria)]) }
CriteriaReplies ==
    WellFormedCriteriaReplies
    \cup { Throw, Unparsable, Parsed(JsonNull), Parsed([json |-> "object"]),
           Parsed([json |-> "array", items |-> CriteriaArray(NumCriteria - 1)]),
           Parsed([json |-> "array", items |-> CriteriaArray(NumCriteria + 1)]),
           Parsed([json |-> "array", items |-> [c \in 1..NumCriteria |-> JsonNull]]) }

\* Replies to the evaluation prompt of app.js:215-248 for the paper at
\* 0-based index i.  A reply object echoes paper_id and title and lists
\* entries {criterion_id, response, reasoning}.
Entry(c, r) == [criterion_id |-> c, response |-> r, reasoning |-> "brief explanation"]
Entries(ids, resps) == [k \in 1..Len(resps) |-> Entry(ids[k], resps[k])]
EvaluationObject(pid, paper, ids, resps) ==
    [json |-> "object", paper_id |-> pid, title |-> paper.title,
     evaluations |-> Entries(ids, resps)]
InOrder == <<1, 2, 3, 4, 5, 6>>
AllYes == <<"Yes", "Yes", "Yes", "Yes", "Yes", "Yes">>
ThreeYes == <<"Yes", "Yes", "Yes", "Maybe", "Maybe", "No">>
TwoYes == <<"Yes", "Yes", "Maybe", "No", "No", "No">>
NotAnswers == <<"yes", "YES", "maybe", "", "N/A", "Unclear">>
\* A paper id of the batch other than i + 1.
OtherId(i) == ((i + 1) % ExpectedPapers) + 1

WellFormedEvaluationReplies(i, paper) ==
    { Parsed(EvaluationObject(i + 1, paper, InOrder, resps)) :
        resps \in {AllYes, TwoYes} }
EvaluationReplies(i, paper) ==
    WellFormedEvaluationReplies(i, paper)
    \cup { Throw, Unparsable, Parsed(JsonNull),
           \* no `evaluations` property
           Parsed([json |-> "object", paper_id |-> i + 1, title |-> paper.title]),
           \* five entries
           Parsed(EvaluationObject(i + 1, paper, <<1, 2, 3, 4, 5>>,
                                   <<"Yes", "Yes", "Yes", "Yes", "Yes">>)),
           \* responses outside Yes/Maybe/No
           Parsed(EvaluationObject(i + 1, paper, InOrder, NotAnswers)),
           \* six entries that repeat criterion 1 and leave out criterion 6
           Parsed(EvaluationObject(i + 1, paper, <<1, 1, 2, 3, 4, 5>>, ThreeYes)),
           \* the paper_id of another paper
           Parsed(EvaluationObject(OtherId(i), paper, InOrder, AllYes)) }

\* ------------------------------------------------------ agent 2 (pure part)
\* `metadata.paper_id = i + 1; metadata.original_index = i` (app.js:100-101)
\* on an object.
WithIds(metadata, i) ==
    [f \in DOMAIN metadata \cup {"paper_id", "original_index"} |->
        IF f = "paper_id" THEN i + 1
        ELSE IF f = "original_index" THEN i
        ELSE metadata[f]]

\* The fallback record of app.js:105-118.
FallbackMetadata(paper, i) ==
    [paper_id |-> i + 1,
     original_index |-> i,
     title |-> paper.title,
     abstract_summary |-> SubSeq(paper.abstract, 1, Min(SummaryLen, Len(paper.abstract))),
     research_domain |-> "Not specified",
     methodology |-> "Not specified",
     study_type |-> "Not specified",
     main_findings |-> "Not specified",
     keywords |-> <<>>,
     authors |-> <<>>,
     journal |-> "Not specified",
     year |-> "Not specified"]

\* The record the try/catch of app.js:98-119 pushes for a reply that
\* resolved.  JSON.parse throwing, and the property assignment on null
\* throwing, both reach the catch; the assignment on a number is ignored
\* (the file is not in strict mode) and the number itself is pushed.
MetadataRecord(reply, paper, i) ==
    IF reply.kind = "unparsable" THEN FallbackMetadata(paper, i)
    ELSE IF reply.value.json = "null" THEN FallbackMetadata(paper, i)
    ELSE IF reply.value.json = "object" THEN WithIds(reply.value, i)
    ELSE reply.value

\* CriteriaRejected that forgets the length.
CriteriaRejectedNotArrayOnly(value) == value.json # "array"

\* ------------------------------------------------------ agent 3 (pure part)
\* `!Array.isArray(criteria) || criteria.length !== 6` (app.js:185) after
\* JSON.parse succeeded.
CriteriaRejected(value) ==
    value.json # "array" \/ Len(value.items) # NumCriteria

\* The error agent3_generateCriteria throws on a reply, NoError if none.
CriteriaError(reply) ==
    IF reply.kind = "throw" THEN [kind |-> "model.invoke rejected", paper |-> 0]
    ELSE IF reply.kind = "unparsable" THEN [kind |-> "SyntaxError", paper |-> 0]
    ELSE IF CriteriaRejected(reply.value)
    THEN [kind |-> "Failed to generate exactly 6 criteria", paper |-> 0]
    ELSE NoError

\* ------------------------------------------------------ agent 4 (pure part)
\* `state.generatedCriteria.map(c => ... c.id ...)` (app.js:211-213) throws
\* a TypeError on a null criterion.
CriteriaTextThrows(criteria) ==
    \E k \in 1..Len(criteria) : criteria[k].json = "null"

\* SanitizeResponse that marks what it does not know instead of the No.
SanitizeToUnknown(r) == IF r \in {"Yes", "Maybe", "No"} THEN r ELSE "Unknown"

\* SanitizeResponse that keeps whatever the model answered.
KeepResponse(r) == r

\* `['Yes', 'Maybe', 'No'].includes(eval.response) ? eval.response : 'No'`
\* (app.js:261)
Answers == {"Yes", "Maybe", "No"}

SanitizeResponse(r) == IF r \in Answers THEN r ELSE "No"

\* `evaluation.evaluations.map(eval => ({...eval, response: ...}))`
\* (app.js:259-262)
Sanitize(evaluations) ==
    [k \in 1..Len(evaluations) |->
        [evaluations[k] EXCEPT !.response = SanitizeResponse(@)]]

\* InvalidStructure that forgets the length.
InvalidStructureMissingOnly(evaluation) == "evaluations" \notin DOMAIN evaluation

\* `!evaluation.evaluations || evaluation.evaluations.length !== 6`
\* (app.js:254)
InvalidStructure(evaluation) ==
    \/ "evaluations" \notin DOMAIN evaluation
    \/ Len(evaluation.evaluations) # NumCriteria

FailureReasoning == "Evaluation failed, marked as Maybe"

\* The fallback record of app.js:267-275.
FallbackEvaluation(paper, i, criteria) ==
    [paper_id |-> i + 1,
     title |-> paper.title,
     evaluations |-> [k \in 1..Len(criteria) |->
                        [criterion_id |-> criteria[k].id,
                         response |-> "Maybe",
                         reasoning |-> FailureReasoning]]]

\* Whether the try of app.js:250-264 ends in its catch: JSON.parse throws,
\* reading `.evaluations` of null throws, or the structure is invalid.
EvaluationFallsBack(reply) ==
    \/ reply.kind = "unparsable"
    \/ reply.value.json = "null"
    \/ InvalidStructure(reply.value)

\* The record the try/catch of app.js:250-276 pushes for a reply that
\* resolved: the parsed object with its responses sanitized (paper_id and
\* title are the reply's own), or the fallback.
EvaluationRecord(reply, paper, i, criteria) ==
    IF EvaluationFallsBack(reply)
    THEN FallbackEvaluation(paper, i, criteria)
    ELSE [paper_id |-> reply.value.paper_id,
          title |-> reply.value.title,
          evaluations |-> Sanitize(reply.value.evaluations)]

\* ------------------------------------------------------ agent 5 (pure part)
\* The (paperEval, eval) pairs in the order the nested forEach of
\* app.js:317-318 visits them.
RECURSIVE Visits(_)
Visits(results) ==
    IF results = <<>> THEN <<>>
    ELSE [k \in 1..Len(Head(results).evaluations) |->
            [paper_id |-> Head(results).paper_id,
             title |-> Head(results).title,
             eval |-> Head(results).evaluations[k]]]
         \o Visits(Tail(results))

\* `const x = value; body` : value is computed once and body reads the result.
Const(value, Body(_)) == CHOOSE r \in { Body(x) : x \in {value} } : TRUE

\* The references pushed to one bucket of one criterion (app.js:321-346),
\* out of the visits in their order.
Reference(v) == [paper_id |-> v.paper_id, title |-> v.title, reasoning |-> v.eval.reasoning]
Bucket(visits, id, answer) ==
    Const(SelectSeq(visits, LAMBDA v : v.eval.criterion_id = id /\ v.eval.response = answer),
          LAMBDA hits : [k \in 1..Len(hits) |-> Reference(hits[k])])

\* The entry of stats for one criterion after the counting: each count is
\* incremented with the push to its list (app.js:323-344).
CriterionStat(criterion, visits) ==
    Const(<<Bucket(visits, criterion.id, "Yes"),
            Bucket(visits, criterion.id, "Maybe"),
            Bucket(visits, criterion.id, "No")>>,
          LAMBDA buckets :
            [criterion |-> criterion.criterion,
             description |-> criterion.description,
             yes_count |-> Len(buckets[1]),
             maybe_count |-> Len(buckets[2]),
             no_count |-> Len(buckets[3]),
             yes_papers |-> buckets[1],
             maybe_papers |-> buckets[2],
             no_papers |-> buckets[3]])

\* `stats[criterion.id] = {...}` for each criterion (app.js:303-314), the
\* last criterion of an id winning, then the counting of app.js:317-349; a
\* visit whose criterion_id has no entry in stats is skipped (app.js:320).
GenerateStats(criteria, results) ==
    Const(Visits(results), LAMBDA visits :
        [id \in { criteria[k].id : k \in 1..Len(criteria) } |->
            LET last == CHOOSE k \in 1..Len(criteria) :
                            /\ criteria[k].id = id
                            /\ \A j \in (k + 1)..Len(criteria) : criteria[j].id # id
            IN  CriterionStat(criteria[last], visits)])

\* ------------------------------------------------------ agent 6 (pure part)
\* The tally of app.js:375-381.
Tally(evaluations, answer) ==
    Cardinality({ k \in 1..Len(evaluations) : evaluations[k].response = answer })

\* The tiers of app.js:388-400.
IsEligible(yesCount, maybeCount) ==
    \/ yesCount = 6
    \/ yesCount = 5 /\ maybeCount = 1
    \/ yesCount = 4 /\ maybeCount = 2
    \/ yesCount >= 3 /\ (yesCount + maybeCount) >= 5
\* BaseScore that leaves the lowest tier without its score.
BaseScoreWithoutLowestTier(yesCount, maybeCount) ==
    IF yesCount = 6 THEN 1000
    ELSE IF yesCount = 5 /\ maybeCount = 1 THEN 900
    ELSE IF yesCount = 4 /\ maybeCount = 2 THEN 800
    ELSE 0

\* BaseScore with the scores of the two highest tiers exchanged.
BaseScoreTiersExchanged(yesCount, maybeCount) ==
    IF yesCount = 6 THEN 900
    ELSE IF yesCount = 5 /\ maybeCount = 1 THEN 1000
    ELSE IF yesCount = 4 /\ maybeCount = 2 THEN 800
    ELSE IF yesCount >= 3 /\ (yesCount + maybeCount) >= 5 THEN 700
    ELSE 0
BaseScore(yesCount, maybeCount) ==
    IF yesCount = 6 THEN 1000
    ELSE IF yesCount = 5 /\ maybeCount = 1 THEN 900
    ELSE IF yesCount = 4 /\ maybeCount = 2 THEN 800
    ELSE IF yesCount >= 3 /\ (yesCount + maybeCount) >= 5 THEN 700
    ELSE 0

\* `eligibilityScore += (yesCount * 10) + (maybeCount * 5)` (app.js:403)
EligibilityScore(yesCount, maybeCount) ==
    BaseScore(yesCount, maybeCount) + (yesCount * 10) + (maybeCount * 5)

\* The record pushed to scoredPapers (app.js:405-415).
ScoredPaper(paperEval) ==
    LET yesCount == Tally(paperEval.evaluations, "Yes")
        maybeCount == Tally(paperEval.evaluations, "Maybe")
        noCount == Tally(paperEval.evaluations, "No")
    IN  [paper_id |-> paperEval.paper_id,
         title |-> paperEval.title,
         yes_count |-> yesCount,
         maybe_count |-> maybeCount,
         no_count |-> noCount,
         eligibility_score |-> EligibilityScore(yesCount, maybeCount),
         is_eligible |-> IsEligible(yesCount, maybeCount),
         evaluations |-> paperEval.evaluations,
         original_index |-> paperEval.paper_id - 1]
ScoredPapers(results) == [k \in 1..Len(results) |-> ScoredPaper(results[k])]

\* SortByScore with the comparator `a.eligibility_score - b.eligibility_score`.
RECURSIVE InsertAscending(_, _)
InsertAscending(sorted, x) ==
    IF sorted = <<>> THEN <<x>>
    ELSE IF Head(sorted).eligibility_score <= x.eligibility_score
    THEN <<Head(sorted)>> \o InsertAscending(Tail(sorted), x)
    ELSE <<x>> \o sorted
RECURSIVE SortByScoreAscending(_)
SortByScoreAscending(papers) ==
    IF papers = <<>> THEN <<>>
    ELSE InsertAscending(SortByScoreAscending(SubSeq(papers, 1, Len(papers) - 1)),
                         papers[Len(papers)])

\* `scoredPapers.sort((a, b) => b.eligibility_score - a.eligibility_score)`
\* (app.js:419): Array.prototype.sort is stable, so a record goes after
\* every record whose score is at least its own.
RECURSIVE InsertByScore(_, _)
InsertByScore(sorted, x) ==
    IF sorted = <<>> THEN <<x>>
    ELSE IF Head(sorted).eligibility_score >= x.eligibility_score
    THEN <<Head(sorted)>> \o InsertByScore(Tail(sorted), x)
    ELSE <<x>> \o sorted
RECURSIVE SortByScore(_)
SortByScore(papers) ==
    IF papers = <<>> THEN <<>>
    ELSE InsertByScore(SortByScore(SubSeq(papers, 1, Len(papers) - 1)),
                       papers[Len(papers)])

\* `slice(0, n)`
Slice(seq, n) == SubSeq(seq, 1, Min(n, Len(seq)))

\* Select that does not fill up with papers that are not eligible.
SelectEligibleOnly(sorted) ==
    Slice(SelectSeq(sorted, LAMBDA p : p.is_eligible), TopN)

\* The selection of app.js:422-432 from the sorted records.
Select(sorted) ==
    LET eligiblePapers == SelectSeq(sorted, LAMBDA p : p.is_eligible)
        nonEligible == SelectSeq(sorted, LAMBDA p : ~p.is_eligible)
        needed == TopN - Len(eligiblePapers)
    IN  IF Len(eligiblePapers) >= TopN
        THEN Slice(eligiblePapers, TopN)
        ELSE eligiblePapers \o Slice(nonEligible, needed)

\* `array[index]`, undefined outside the array.
Undefined == [json |-> "undefined"]
At(array, index) == IF index + 1 \in DOMAIN array THEN array[index + 1] ELSE Undefined

\* `{...paper, original_paper: ..., metadata: ...}` (app.js:435-439)
WithOriginal(paper, papers, metadata) ==
    [paper_id |-> paper.paper_id,
     title |-> paper.title,
     yes_count |-> paper.yes_count,
     maybe_count |-> paper.maybe_count,
     no_count |-> paper.no_count,
     eligibility_score |-> paper.eligibility_score,
     is_eligible |-> paper.is_eligible,
     evaluations |-> paper.evaluations,
     original_index |-> paper.original_index,
     original_paper |-> At(papers, paper.original_index),
     metadata |-> At(metadata, paper.original_index)]

\* state.finalSelectedPapers as agent6_selectTopPapers computes it: the
\* scored records (app.js:367-416), sorted (app.js:419), selected
\* (app.js:422-432) and joined with their paper and metadata (app.js:435-439).
SelectTopPapers(results, papers, metadata) ==
    Const(ScoredPapers(results), LAMBDA scoredPapers :
    Const(SortByScore(scoredPapers), LAMBDA sorted :
    Const(Select(sorted), LAMBDA selectedPapers :
        [k \in 1..Len(selectedPapers) |->
            WithOriginal(selectedPapers[k], papers, metadata)])))

\* --------------------------------------------------- POST /screen-papers
\* The success envelope of app.js:506-527.  indexOf finds each record at
\* its own position: the records are distinct objects made by the map of
\* app.js:435.
SuccessResponse(step, papers, criteria, stats, selected, errs) ==
    [status |-> 200,
     success |-> TRUE,
     workflow_steps |-> step,
     input_papers_count |-> Len(papers),
     generated_criteria |-> criteria,
     criteria_statistics |-> stats,
     selected_papers_count |-> Len(selected),
     selected_papers |->
        [k \in 1..Len(selected) |->
            [rank |-> k,
             paper_id |-> selected[k].paper_id,
             title |-> selected[k].title,
             eligibility_score |-> selected[k].eligibility_score,
             criteria_results |-> [yes_count |-> selected[k].yes_count,
                                   maybe_count |-> selected[k].maybe_count,
                                   no_count |-> selected[k].no_count],
             detailed_evaluations |-> selected[k].evaluations,
             metadata |-> selected[k].metadata]],
     errors |-> errs]

\* The failure envelope of app.js:534-538.
FailureResponse(error) == [status |-> 500, success |-> FALSE, error |-> error]

\* The rejection of app.js:484-494.
BadRequest == [status |-> 400, error |-> "Invalid input: 'papers' should be an array"]

\* ------------------------------------------------------ the workflow graph
\* createWorkflow (app.js:465-471): the entry point and the edges.
EntryPoint == "agent1"
\* NextNode with the edge out of agent3 leading past the evaluation.
NextNodeSkipsEvaluation(n) ==
    CASE n = "agent1" -> "agent2"
      [] n = "agent2" -> "agent3"
      [] n = "agent3" -> "agent5"
      [] n = "agent4" -> "agent5"
      [] n = "agent5" -> "agent6"
      [] n = "agent6" -> "END"


NextNode(n) ==
    CASE n = "agent1" -> "agent2"
      [] n = "agent2" -> "agent3"
      [] n = "agent3" -> "agent4"
      [] n = "agent4" -> "agent5"
      [] n = "agent5" -> "agent6"
      [] n = "agent6" -> "END"

\* ------------------------------------------------------------------ state
VARIABLES
    body,                \* req.body: whether papers is an array, and the array
    gateway,             \* the model behind model.invoke: "wellformed" or "arbitrary"
    inputPapers,         \* WorkflowState fields (app.js:20-27)
    extractedMetadata,
    generatedCriteria,
    evaluationResults,
    criteriaStats,
    finalSelectedPapers,
    currentStep,
    errors,
    node,                \* "handler", the graph node that runs, "END", "thrown", "responded"
    i,                   \* loop index of agent 2 and agent 4
    results,             \* their local array (extractedMetadata / evaluationResults)
    pending,             \* the model.invoke calls awaited
    calls,               \* the model.invoke calls made so far
    settled,             \* the call the last step resumed from, with its reply
    thrown,              \* the error that left the workflow
    started,             \* the graph nodes invoked so far
    response             \* the HTTP response sent

state == <<inputPapers, extractedMetadata, generatedCriteria, evaluationResults,
           criteriaStats, finalSelectedPapers, currentStep, errors>>
vars == <<body, gateway, state, node, i, results, pending, calls, settled, thrown,
          started, response>>

NoResponse == [status |-> 0]
NoReply == [task |-> "none"]

\* `new WorkflowState()` (app.js:19-28) in a handler that has just received
\* its request.
Init ==
    /\ body \in Bodies
    /\ gateway \in {"wellformed", "arbitrary"}
    /\ inputPapers = <<>>
    /\ extractedMetadata = <<>>
    /\ generatedCriteria = <<>>
    /\ evaluationResults = <<>>
    /\ criteriaStats = <<>>
    /\ finalSelectedPapers = <<>>
    /\ currentStep = ""
    /\ errors = <<>>
    /\ node = "handler"
    /\ i = 0
    /\ results = <<>>
    /\ pending = <<>>
    /\ calls = <<>>
    /\ settled = NoReply
    /\ thrown = NoError
    /\ started = <<>>
    /\ response = NoResponse

\* The graph invokes node n: its locals are fresh (app.js:64, app.js:205).
Enter(n) ==
    /\ node' = n
    /\ started' = IF n = "END" THEN started ELSE Append(started, n)
    /\ i' = 0
    /\ results' = <<>>

\* Fail with the message of agent 1 in the catch of every agent.
FailTaggedAgent1(k, error) ==
    /\ errors' = Append(errors, [agent |-> 1, error |-> error])
    /\ thrown' = error
    /\ node' = "thrown"
    /\ pending' = <<>>
    /\ UNCHANGED <<i, results, started>>

\* The catch of agent k (app.js:53-56 and alike): the message is pushed to
\* state.errors and the error is rethrown, which ends workflow.invoke.
Fail(k, error) ==
    /\ errors' = Append(errors, [agent |-> k, error |-> error])
    /\ thrown' = error
    /\ node' = "thrown"
    /\ pending' = <<>>
    /\ UNCHANGED <<i, results, started>>

\* `await model.invoke(...)` is called.
Invoke(task) ==
    /\ pending' = Append(pending, [task |-> task, index |-> i])
    /\ calls' = Append(calls, [task |-> task, index |-> i])
    /\ settled' = NoReply

\* The awaited call settles with reply.
Settle(reply) ==
    settled' = [task |-> pending[1].task, index |-> pending[1].index, reply |-> reply]

\* ---------------------------------------------------------------- actions
\* app.js:483-495: papers is not an array.
RejectBody ==
    /\ settled' = NoReply
    /\ node = "handler"
    /\ ~body.isArray
    /\ response' = BadRequest
    /\ node' = "responded"
    /\ UNCHANGED <<body, gateway, state, i, results, pending, calls, thrown, started>>

\* app.js:497-503: the state is created and the workflow invoked.
StartWorkflow ==
    /\ settled' = NoReply
    /\ node = "handler"
    /\ body.isArray
    /\ inputPapers' = body.papers
    /\ Enter(EntryPoint)
    /\ UNCHANGED <<body, gateway, extractedMetadata, generatedCriteria, evaluationResults,
                   criteriaStats, finalSelectedPapers, currentStep, errors, pending, calls,
                   thrown, response>>

\* app.js:32-57
agent1_processInput ==
    /\ settled' = NoReply
    /\ node = "agent1"
    /\ LET error == ValidationError(inputPapers)
       IN  IF error = NoError
           THEN /\ currentStep' = "Input Processed"
                /\ Enter(NextNode("agent1"))
                /\ UNCHANGED <<errors, thrown, pending>>
           ELSE /\ Fail(1, error)
                /\ UNCHANGED currentStep
    /\ UNCHANGED <<body, gateway, inputPapers, extractedMetadata, generatedCriteria,
                   evaluationResults, criteriaStats, finalSelectedPapers, calls, response>>

\* agent2_invoke that does not wait for the call before: the next call is
\* made while one is awaited.
agent2_invokeWithoutAwait ==
    /\ node = "agent2"
    /\ Len(pending) < 2
    /\ i < Len(inputPapers)
    /\ Invoke("metadata")
    /\ UNCHANGED <<body, gateway, state, node, i, results, thrown, started, response>>

\* app.js:66-96: the call for paper i is made.
agent2_invoke ==
    /\ node = "agent2"
    /\ pending = <<>>
    /\ i < Len(inputPapers)
    /\ Invoke("metadata")
    /\ UNCHANGED <<body, gateway, state, node, i, results, thrown, started, response>>

\* app.js:93-135: the call settles; the record is pushed and, after the
\* last paper, the stage commits.  A rejected call is outside the inner
\* try and reaches the catch of the agent.
agent2_resume ==
    /\ node = "agent2"
    /\ pending # <<>>
    /\ \E reply \in (IF gateway = "wellformed"
                     THEN WellFormedMetadataReplies(inputPapers[i + 1])
                     ELSE MetadataReplies(inputPapers[i + 1])) :
        /\ Settle(reply)
        /\ IF reply.kind = "throw"
           THEN /\ Fail(2, [kind |-> "model.invoke rejected", paper |-> 0])
                /\ UNCHANGED <<extractedMetadata, currentStep>>
           ELSE LET pushed == Append(results, MetadataRecord(reply, inputPapers[i + 1], i))
                IN  /\ pending' = <<>>
                    /\ UNCHANGED <<errors, thrown>>
                    /\ IF i + 1 < Len(inputPapers)
                       THEN /\ results' = pushed
                            /\ i' = i + 1
                            /\ UNCHANGED <<extractedMetadata, currentStep, node, started>>
                       ELSE /\ extractedMetadata' = pushed
                            /\ currentStep' = "Metadata Extracted"
                            /\ Enter(NextNode("agent2"))
    /\ UNCHANGED <<body, gateway, inputPapers, generatedCriteria, evaluationResults,
                   criteriaStats, finalSelectedPapers, calls, response>>

\* app.js:144-181: the criteria call is made.
agent3_invoke ==
    /\ node = "agent3"
    /\ pending = <<>>
    /\ Invoke("criteria")
    /\ UNCHANGED <<body, gateway, state, node, i, results, thrown, started, response>>

\* app.js:178-197: the call settles.
agent3_resume ==
    /\ node = "agent3"
    /\ pending # <<>>
    /\ \E reply \in (IF gateway = "wellformed" THEN WellFormedCriteriaReplies
                     ELSE CriteriaReplies) :
        /\ Settle(reply)
        /\ LET error == CriteriaError(reply)
           IN  IF error = NoError
               THEN /\ generatedCriteria' = reply.value.items
                    /\ currentStep' = "Criteria Generated"
                    /\ pending' = <<>>
                    /\ Enter(NextNode("agent3"))
                    /\ UNCHANGED <<errors, thrown>>
               ELSE /\ Fail(3, error)
                    /\ UNCHANGED <<generatedCriteria, currentStep>>
    /\ UNCHANGED <<body, gateway, inputPapers, extractedMetadata, evaluationResults,
                   criteriaStats, finalSelectedPapers, calls, response>>

\* app.js:207-248: the criteria text is built and the call for paper i is
\* made; building the text throws on a null criterion.
agent4_invoke ==
    /\ node = "agent4"
    /\ pending = <<>>
    /\ i < Len(inputPapers)
    /\ IF CriteriaTextThrows(generatedCriteria)
       THEN /\ Fail(4, [kind |-> "TypeError", paper |-> 0])
            /\ settled' = NoReply
            /\ UNCHANGED calls
       ELSE /\ Invoke("evaluation")
            /\ UNCHANGED <<errors, node, i, results, thrown, started>>
    /\ UNCHANGED <<body, gateway, inputPapers, extractedMetadata, generatedCriteria,
                   evaluationResults, criteriaStats, finalSelectedPapers, currentStep,
                   response>>

\* app.js:245-292: the call settles; the record is pushed and, after the
\* last paper, the stage commits.
agent4_resume ==
    /\ node = "agent4"
    /\ pending # <<>>
    /\ \E reply \in (IF gateway = "wellformed"
                     THEN WellFormedEvaluationReplies(i, inputPapers[i + 1])
                     ELSE EvaluationReplies(i, inputPapers[i + 1])) :
        /\ Settle(reply)
        /\ IF reply.kind = "throw"
           THEN /\ Fail(4, [kind |-> "model.invoke rejected", paper |-> 0])
                /\ UNCHANGED <<evaluationResults, currentStep>>
           ELSE LET pushed == Append(results, EvaluationRecord(reply, inputPapers[i + 1], i,
                                                               generatedCriteria))
                IN  /\ pending' = <<>>
                    /\ UNCHANGED <<errors, thrown>>
                    /\ IF i + 1 < Len(inputPapers)
                       THEN /\ results' = pushed
                            /\ i' = i + 1
                            /\ UNCHANGED <<evaluationResults, currentStep, node, started>>
                       ELSE /\ evaluationResults' = pushed
                            /\ currentStep' = "Papers Evaluated"
                            /\ Enter(NextNode("agent4"))
    /\ UNCHANGED <<body, gateway, inputPapers, extractedMetadata, generatedCriteria,
                   criteriaStats, finalSelectedPapers, calls, response>>

\* app.js:296-360
agent5_generateStats ==
    /\ settled' = NoReply
    /\ node = "agent5"
    /\ criteriaStats' = GenerateStats(generatedCriteria, evaluationResults)
    /\ currentStep' = "Statistics Generated"
    /\ Enter(NextNode("agent5"))
    /\ UNCHANGED <<body, gateway, inputPapers, extractedMetadata, generatedCriteria,
                   evaluationResults, finalSelectedPapers, errors, pending, calls, thrown,
                   response>>

\* app.js:363-450
agent6_selectTopPapers ==
    /\ settled' = NoReply
    /\ node = "agent6"
    /\ finalSelectedPapers' = SelectTopPapers(evaluationResults, inputPapers,
                                              extractedMetadata)
    /\ currentStep' = "Top 10 Selected"
    /\ Enter(NextNode("agent6"))
    /\ UNCHANGED <<body, gateway, inputPapers, extractedMetadata, generatedCriteria,
                   evaluationResults, criteriaStats, errors, pending, calls, thrown,
                   response>>

\* app.js:505-530: workflow.invoke resolved.
SendSuccess ==
    /\ settled' = NoReply
    /\ node = "END"
    /\ response' = SuccessResponse(currentStep, inputPapers, generatedCriteria,
                                   criteriaStats, finalSelectedPapers, errors)
    /\ node' = "responded"
    /\ UNCHANGED <<body, gateway, state, i, results, pending, calls, thrown, started>>

\* app.js:532-539: workflow.invoke rejected.
SendFailure ==
    /\ settled' = NoReply
    /\ node = "thrown"
    /\ response' = FailureResponse(thrown)
    /\ node' = "responded"
    /\ UNCHANGED <<body, gateway, state, i, results, pending, calls, thrown, started>>

Next ==
    \/ RejectBody
    \/ StartWorkflow
    \/ agent1_processInput
    \/ agent2_invoke
    \/ agent2_resume
    \/ agent3_invoke
    \/ agent3_resume
    \/ agent4_invoke
    \/ agent4_resume
    \/ agent5_generateStats
    \/ agent6_selectTopPapers
    \/ SendSuccess
    \/ SendFailure

Spec == Init /\ [][Next]_vars

\* Every call to the model settles and every continuation runs: each await
\* of the handler is resumed by the event loop.
FairSpec == Spec /\ WF_vars(Next)

\* The runs of FairSpec in which the model always answers well-formed.
WellFormedInit == Init /\ gateway = "wellformed"
WellFormedFairSpec == WellFormedInit /\ [][Next]_vars /\ WF_vars(Next)

\* ------------------------------------------- scoring and selection alone
\* agents 5 and 6 and the answer of the handler, run on every combination
\* of responses the evaluation stage can have stored.
\* The tallies (yes, maybe) of 6 responses; the rest are No.
Tallies ==
    { t \in (0..NumCriteria) \X (0..NumCriteria) : t[1] + t[2] <= NumCriteria }
\* One tally of each kind: all Yes, the lowest tier, two that are not
\* eligible.
FewTallies == { <<6, 0>>, <<3, 2>>, <<2, 1>>, <<0, 6>> }
\* The first two papers take every tally, the others one of the few.
TalliesOf(k) == IF k <= 2 THEN Tallies ELSE FewTallies
\* Six sanitized responses with the tally t.
Responses(t) ==
    [k \in 1..NumCriteria |->
        IF k <= t[1] THEN "Yes" ELSE IF k <= t[1] + t[2] THEN "Maybe" ELSE "No"]
\* The batch of complete documents.
CompleteBatch == [p \in 1..ExpectedPapers |-> Document(p, TRUE, TRUE)]
\* What agent 4 stores (app.js:264) for replies that carry the tallies t.
StoredResults(t) ==
    [k \in 1..ExpectedPapers |->
        EvaluationRecord(Parsed(EvaluationObject(k, CompleteBatch[k], InOrder,
                                                 Responses(t[k]))),
                         CompleteBatch[k], k - 1, CriteriaArray(NumCriteria))]
\* The calls of a run that got through agent 4: one per paper for the
\* metadata, one for the criteria, one per paper for the evaluation.
CallsThroughEvaluation ==
    [k \in 1..(2 * ExpectedPapers + 1) |->
        IF k <= ExpectedPapers THEN [task |-> "metadata", index |-> k - 1]
        ELSE IF k = ExpectedPapers + 1 THEN [task |-> "criteria", index |-> 0]
        ELSE [task |-> "evaluation", index |-> k - ExpectedPapers - 2]]

\* The state in which agent4_evaluatePapers has just returned.
ScoringInit ==
    /\ body = [isArray |-> TRUE, papers |-> CompleteBatch]
    /\ gateway = "arbitrary"
    /\ inputPapers = CompleteBatch
    /\ extractedMetadata =
          [k \in 1..ExpectedPapers |->
              MetadataRecord(Parsed(MetadataObject(CompleteBatch[k])), CompleteBatch[k], k - 1)]
    /\ generatedCriteria = CriteriaArray(NumCriteria)
    /\ evaluationResults \in
          { StoredResults(t) : t \in { u \in [1..ExpectedPapers -> Tallies] :
                                         \A k \in 1..ExpectedPapers : u[k] \in TalliesOf(k) } }
    /\ criteriaStats = <<>>
    /\ finalSelectedPapers = <<>>
    /\ currentStep = "Papers Evaluated"
    /\ errors = <<>>
    /\ node = "agent5"
    /\ i = 0
    /\ results = <<>>
    /\ pending = <<>>
    /\ calls = CallsThroughEvaluation
    /\ settled = NoReply
    /\ thrown = NoError
    /\ started = <<"agent1", "agent2", "agent3", "agent4", "agent5">>
    /\ response = NoResponse

ScoringNext ==
    \/ agent5_generateStats
    \/ agent6_selectTopPapers
    \/ SendSuccess

ScoringSpec == ScoringInit /\ [][ScoringNext]_vars

\* ================================================================ claims
Stages == <<"agent1", "agent2", "agent3", "agent4", "agent5", "agent6">>
StepLabels == <<"Input Processed", "Metadata Extracted", "Criteria Generated",
                "Papers Evaluated", "Statistics Generated", "Top 10 Selected">>
\* How many stages have succeeded, read off state.currentStep.
Succeeded ==
    IF currentStep = "" THEN 0
    ELSE CHOOSE k \in 1..Len(StepLabels) : StepLabels[k] = currentStep
\* A batch of the expected size whose documents all have title and abstract.
ValidBatch(papers) ==
    /\ Len(papers) = ExpectedPapers
    /\ \A k \in 1..Len(papers) : papers[k].title # <<>> /\ papers[k].abstract # <<>>
\* The evaluation record the last step pushed.
LastPushed ==
    IF results # <<>> THEN results[Len(results)]
    ELSE evaluationResults[Len(evaluationResults)]
\* The evaluation records held by agent 4 or committed to the state.
StoredEvaluations ==
    { results[k] : k \in { j \in 1..Len(results) : node = "agent4" } }
    \cup { evaluationResults[k] : k \in 1..Len(evaluationResults) }

\* C1: the six stages run in the fixed order, each at most once, a stage
\* starting only after its predecessor succeeded; once a stage has failed
\* no later stage runs and the state is not touched again; 'Top 10
\* Selected' is the label only after all six stages succeeded.
C1_StagesInOrder ==
    /\ [](/\ started = SubSeq(Stages, 1, Len(started))
          /\ Len(started) <= Len(Stages)
          /\ Succeeded <= Len(started)
          /\ started # <<>> => Succeeded >= Len(started) - 1
          /\ errors # <<>> => /\ Succeeded = Len(started) - 1
                              /\ node \in {"thrown", "responded"}
          /\ currentStep = "Top 10 Selected" => started = Stages /\ errors = <<>>)
    /\ [][errors # <<>> => started' = started /\ state' = state /\ calls' = calls]_vars
\* A run that failed in the fourth stage and has answered.
C1_Witness ==
    /\ node = "responded"
    /\ errors # <<>>
    /\ started = SubSeq(Stages, 1, 4)
    /\ currentStep = "Criteria Generated"

\* C2: a posted batch of another size than expected, or with a document
\* that lacks title or abstract, fails in agent 1 and no call to the model
\* is ever made.
C2_NoCallOnInvalidInput ==
    (body.isArray /\ ~ValidBatch(body.papers)) =>
        /\ calls = <<>>
        /\ pending = <<>>
        /\ node \notin {"handler", "agent1"} =>
              /\ node \in {"thrown", "responded"}
              /\ started = <<"agent1">>
              /\ Len(errors) = 1
              /\ errors[1].agent = 1
        /\ node = "responded" => response.status = 500
\* A batch one document too long was answered with a failure.
C2_Witness ==
    /\ node = "responded"
    /\ body.isArray
    /\ Len(body.papers) = ExpectedPapers + 1
    /\ response.status = 500
    /\ calls = <<>>

\* C3: for a batch of the expected size with a document missing title or
\* abstract, validation fails with an error naming the 1-based position of
\* the first such document, and no papers are selected.
C3_FirstMissingNamed ==
    (/\ body.isArray
     /\ Len(body.papers) = ExpectedPapers
     /\ ~ValidBatch(body.papers)
     /\ node \notin {"handler", "agent1"}) =>
        LET incomplete == { k \in 1..Len(body.papers) :
                              body.papers[k].title = <<>> \/ body.papers[k].abstract = <<>> }
            first == CHOOSE k \in incomplete : \A j \in incomplete : k <= j
        IN  /\ thrown.kind = "Paper missing required fields: title, or abstract"
            /\ thrown.paper = first
            /\ errors = <<[agent |-> 1, error |-> thrown]>>
            /\ finalSelectedPapers = <<>>
            /\ node = "responded" =>
                  /\ response.status = 500
                  /\ response.error.paper = first
                  /\ "selected_papers" \notin DOMAIN response
\* The second and third documents are incomplete, the second only lacks its
\* abstract, and the failure names the second.
C3_Witness ==
    /\ node = "responded"
    /\ body.isArray
    /\ Len(body.papers) = ExpectedPapers
    /\ body.papers[1].title # <<>> /\ body.papers[1].abstract # <<>>
    /\ body.papers[2].title # <<>> /\ body.papers[2].abstract = <<>>
    /\ body.papers[3].title = <<>>
    /\ response.status = 500
    /\ response.error.paper = 2

\* A criteria reply that does not parse to an array of exactly 6 entries.
BadCriteriaReply(reply) ==
    \/ reply.kind = "unparsable"
    \/ /\ reply.kind = "parsed"
       /\ \/ reply.value.json # "array"
          \/ Len(reply.value.items) # 6
\* C4: when the criteria reply does not parse to an array of exactly 6
\* entries the run aborts in agent 3: generatedCriteria stays unset,
\* evaluation, statistics and selection never run, and the failure
\* response carries no selected_papers.
C4_CriteriaShapeFatal ==
    /\ (settled.task = "criteria" /\ BadCriteriaReply(settled.reply)) =>
          /\ node = "thrown"
          /\ errors = <<[agent |-> 3, error |-> thrown]>>
    /\ (errors # <<>> /\ errors[1].agent = 3) =>
          /\ generatedCriteria = <<>>
          /\ evaluationResults = <<>>
          /\ criteriaStats = <<>>
          /\ finalSelectedPapers = <<>>
          /\ started = SubSeq(Stages, 1, 3)
          /\ \A k \in 1..Len(calls) : calls[k].task # "evaluation"
          /\ node \in {"thrown", "responded"}
          /\ node = "responded" =>
                /\ response.status = 500
                /\ ~response.success
                /\ "selected_papers" \notin DOMAIN response
\* The model answered the criteria prompt with 5 criteria and agent 3 threw.
C4_Witness ==
    /\ settled.task = "criteria"
    /\ settled.reply.kind = "parsed"
    /\ settled.reply.value.json = "array"
    /\ Len(settled.reply.value.items) = 5
    /\ node = "thrown"
    /\ thrown.kind = "Failed to generate exactly 6 criteria"

\* C5: with a valid batch and a model that always answers well-formed,
\* the run reaches 'Top 10 Selected' and answers with exactly the full
\* selection.
C5_WellFormedRunSelects ==
    (gateway = "wellformed" /\ body.isArray /\ ValidBatch(body.papers))
        ~> (/\ node = "responded"
            /\ currentStep = "Top 10 Selected"
            /\ response.status = 200
            /\ Len(response.selected_papers) = TopN
            /\ response.selected_papers_count = TopN)
\* A well-formed run answered with a full selection that had to be filled
\* with a paper that is not eligible.
C5_Witness ==
    /\ node = "responded"
    /\ gateway = "wellformed"
    /\ response.status = 200
    /\ Len(response.selected_papers) = TopN
    /\ \E k \in 1..Len(finalSelectedPapers) : ~finalSelectedPapers[k].is_eligible

\* C6: the evaluation record of the document at input position k carries
\* paper_id k, and the selected record made from it is joined with the
\* document at position k.
C6_PaperIdStable ==
    /\ \A k \in 1..Len(evaluationResults) : evaluationResults[k].paper_id = k
    /\ \A k \in 1..Len(finalSelectedPapers) :
          finalSelectedPapers[k].original_paper.title = finalSelectedPapers[k].title

\* C7: once the statistics are generated, the three counts of each of the
\* 6 criteria add up to the number of papers.
C7_CountsCoverBatch ==
    currentStep \in {"Statistics Generated", "Top 10 Selected"} =>
        /\ DOMAIN criteriaStats = 1..NumCriteria
        /\ \A id \in DOMAIN criteriaStats :
              criteriaStats[id].yes_count + criteriaStats[id].maybe_count
                + criteriaStats[id].no_count = ExpectedPapers

\* C8: every stored evaluation list has exactly 6 entries and names every
\* generated criterion id exactly once.
C8_IdComplete ==
    \A rec \in StoredEvaluations :
        /\ Len(rec.evaluations) = NumCriteria
        /\ \A c \in 1..Len(generatedCriteria) :
              Cardinality({ k \in 1..Len(rec.evaluations) :
                              rec.evaluations[k].criterion_id = generatedCriteria[c].id }) = 1

\* An evaluation reply that passes the check of agent 4: an object with an
\* evaluations list of 6 entries.
ValidatedReply(reply) ==
    /\ reply.kind = "parsed"
    /\ reply.value.json = "object"
    /\ "evaluations" \in DOMAIN reply.value
    /\ Len(reply.value.evaluations) = 6
\* C9: every stored response is Yes, Maybe or No, so statistics and
\* scoring only see those; a reply that passes the check of agent 4 is
\* stored entry by entry, a response outside the three replaced by No and
\* the others kept, and the stage goes on.
C9_ResponsesCoerced ==
    /\ \A rec \in StoredEvaluations : \A k \in 1..Len(rec.evaluations) :
          rec.evaluations[k].response \in {"Yes", "Maybe", "No"}
    /\ (settled.task = "evaluation" /\ ValidatedReply(settled.reply)) =>
          /\ node \in {"agent4", "agent5"}
          /\ errors = <<>>
          /\ \A k \in 1..6 :
                LET given == settled.reply.value.evaluations[k].response
                    stored == LastPushed.evaluations[k].response
                IN  stored = IF given \in {"Yes", "Maybe", "No"} THEN given ELSE "No"
\* A reply with a response outside the three was stored with No in its place.
C9_Witness ==
    /\ settled.task = "evaluation"
    /\ ValidatedReply(settled.reply)
    /\ \E k \in 1..6 :
          /\ settled.reply.value.evaluations[k].response = "N/A"
          /\ LastPushed.evaluations[k].response = "No"

\* An evaluation reply that is unparsable, or has no evaluations list, or
\* one that is not of length 6.
ParseFailure(reply) ==
    \/ reply.kind = "unparsable"
    \/ /\ reply.kind = "parsed"
       /\ \/ reply.value.json # "object"
          \/ "evaluations" \notin DOMAIN reply.value
          \/ Len(reply.value.evaluations) # 6
\* C10: for such a reply agent 4 stores the fallback for that paper
\* (paper_id = position + 1, the 6 criteria rated Maybe with the fixed
\* reasoning) and goes on; the records of the other papers stay as they
\* were.
C10_FallbackEvaluation ==
    /\ []((settled.task = "evaluation" /\ ParseFailure(settled.reply)) =>
            /\ node \in {"agent4", "agent5"}
            /\ errors = <<>>
            /\ LastPushed.paper_id = settled.index + 1
            /\ LastPushed.title = inputPapers[settled.index + 1].title
            /\ Len(LastPushed.evaluations) = 6
            /\ \A k \in 1..6 :
                  /\ LastPushed.evaluations[k].criterion_id = generatedCriteria[k].id
                  /\ LastPushed.evaluations[k].response = "Maybe"
                  /\ LastPushed.evaluations[k].reasoning = "Evaluation failed, marked as Maybe")
    /\ [][(node = "agent4" /\ pending # <<>> /\ node' # "thrown") =>
            LET after == IF results' # <<>> THEN results' ELSE evaluationResults'
            IN  /\ Len(after) = Len(results) + 1
                /\ SubSeq(after, 1, Len(results)) = results]_vars
\* A run that stored the fallback for one paper and a reply of the model
\* for another completed with a selection.
C10_Witness ==
    /\ node = "responded"
    /\ response.status = 200
    /\ Len(response.selected_papers) = TopN
    /\ \E k \in 1..Len(evaluationResults) :
          evaluationResults[k].evaluations[1].reasoning = "Evaluation failed, marked as Maybe"
    /\ \E k \in 1..Len(evaluationResults) :
          evaluationResults[k].evaluations[1].reasoning # "Evaluation failed, marked as Maybe"

\* How often answer occurs among the stored responses of the paper at
\* input position k, and the record agent 6 makes of that paper.
CountOf(k, answer) ==
    Cardinality({ c \in 1..Len(evaluationResults[k].evaluations) :
                    evaluationResults[k].evaluations[c].response = answer })
Scored(k) == ScoredPaper(evaluationResults[k])
\* Whether the selection holds a record of the paper at input position k
\* with the score agent 6 gave it.
SelectedWithScore(k) ==
    \E r \in 1..Len(finalSelectedPapers) :
        /\ finalSelectedPapers[r].paper_id = k
        /\ finalSelectedPapers[r].eligibility_score = Scored(k).eligibility_score
\* The tiers of the scoring table: 6 Yes, 5 Yes and 1 Maybe, 4 Yes and
\* 2 Maybe, at least 3 Yes with at most one No.
InTier(k) ==
    \/ CountOf(k, "Yes") = 6
    \/ CountOf(k, "Yes") = 5 /\ CountOf(k, "Maybe") = 1
    \/ CountOf(k, "Yes") = 4 /\ CountOf(k, "Maybe") = 2
    \/ CountOf(k, "Yes") >= 3 /\ CountOf(k, "Yes") + CountOf(k, "Maybe") >= 5

\* C11: of two papers whose responses sum to 6, the one with 6 Yes scores
\* strictly higher than one with 5 Yes and 1 Maybe, which scores strictly
\* higher than one with 4 Yes and 2 Maybe, which scores strictly higher
\* than every paper that is in no tier.
C11_TierOrdering ==
    \A p, q \in 1..Len(evaluationResults) :
        /\ (CountOf(p, "Yes") = 6 /\ CountOf(q, "Yes") = 5 /\ CountOf(q, "Maybe") = 1)
              => Scored(p).eligibility_score > Scored(q).eligibility_score
        /\ (/\ CountOf(p, "Yes") = 5 /\ CountOf(p, "Maybe") = 1
            /\ CountOf(q, "Yes") = 4 /\ CountOf(q, "Maybe") = 2)
              => Scored(p).eligibility_score > Scored(q).eligibility_score
        /\ (CountOf(p, "Yes") = 4 /\ CountOf(p, "Maybe") = 2 /\ ~InTier(q))
              => Scored(p).eligibility_score > Scored(q).eligibility_score
\* A paper with 6 Yes and one with 5 Yes and 1 Maybe were both selected,
\* with the scores 1060 and 955.
C11_Witness ==
    /\ node = "responded"
    /\ CountOf(1, "Yes") = 5 /\ CountOf(1, "Maybe") = 1
    /\ CountOf(2, "Yes") = 6
    /\ SelectedWithScore(1) /\ SelectedWithScore(2)
    /\ finalSelectedPapers[1].paper_id = 2
    /\ finalSelectedPapers[1].eligibility_score = 1060
    /\ finalSelectedPapers[2].eligibility_score = 955

\* C12: papers of equal score keep their input order in the selection, and
\* a paper is never selected while an earlier paper of the same score and
\* eligibility is left out; when every paper is rated Yes on all 6 criteria
\* every selected paper scores 1060 and the selection is papers 1..TopN in
\* that order.
C12_StableRanking ==
    currentStep = "Top 10 Selected" =>
        /\ \A r, s \in 1..Len(finalSelectedPapers) :
              (r < s /\ finalSelectedPapers[r].eligibility_score
                          = finalSelectedPapers[s].eligibility_score)
                 => finalSelectedPapers[r].paper_id < finalSelectedPapers[s].paper_id
        /\ \A r \in 1..Len(finalSelectedPapers) :
              \A k \in 1..(finalSelectedPapers[r].paper_id - 1) :
                 Scored(k).eligibility_score = finalSelectedPapers[r].eligibility_score
                    => \E s \in 1..(r - 1) : finalSelectedPapers[s].paper_id = k
        /\ (\A k \in 1..Len(evaluationResults) : CountOf(k, "Yes") = 6) =>
              /\ Len(finalSelectedPapers) = TopN
              /\ \A r \in 1..TopN :
                    /\ finalSelectedPapers[r].paper_id = r
                    /\ finalSelectedPapers[r].eligibility_score = 1060
                    /\ finalSelectedPapers[r].original_paper = inputPapers[r]

\* C13: the selection is the TopN highest-ranked eligible papers if there
\* are that many, otherwise every eligible paper followed by the
\* highest-scoring papers that are not eligible; so it always holds exactly
\* TopN distinct documents, and no selected paper is ineligible while an
\* eligible one is left out.
C13_SelectionRule ==
    currentStep = "Top 10 Selected" =>
        LET eligible == { k \in 1..Len(evaluationResults) : InTier(k) }
            chosen == { finalSelectedPapers[r].paper_id : r \in 1..Len(finalSelectedPapers) }
        IN  /\ Len(finalSelectedPapers) = TopN
            /\ Cardinality(chosen) = TopN
            /\ \A r \in 1..TopN : finalSelectedPapers[r].is_eligible
                                     <=> r <= Cardinality(eligible)
            /\ Cardinality(eligible) >= TopN => chosen \subseteq eligible
            /\ Cardinality(eligible) < TopN => eligible \subseteq chosen
            /\ \A r \in 1..TopN : \A k \in 1..Len(evaluationResults) :
                  (k \notin chosen /\ InTier(k) = InTier(finalSelectedPapers[r].paper_id))
                     => Scored(k).eligibility_score
                           <= finalSelectedPapers[r].eligibility_score

\* C14: when the call for one paper is rejected during metadata extraction
\* or evaluation, the stage and the run go on: no error is recorded, that
\* paper gets the fallback record and the remaining papers are processed.
C14_CallFailureContained ==
    (settled.task \in {"metadata", "evaluation"} /\ settled.reply.kind = "throw") =>
        /\ node # "thrown"
        /\ errors = <<>>
        /\ LET pushed == IF results # <<>> THEN results[Len(results)]
                         ELSE IF settled.task = "metadata"
                         THEN extractedMetadata[Len(extractedMetadata)]
                         ELSE evaluationResults[Len(evaluationResults)]
           IN  pushed = IF settled.task = "metadata"
                        THEN FallbackMetadata(inputPapers[settled.index + 1], settled.index)
                        ELSE FallbackEvaluation(inputPapers[settled.index + 1], settled.index,
                                                generatedCriteria)

\* C15: whatever the model answered to the metadata prompts, once the
\* metadata stage has completed extractedMetadata holds one record per
\* input paper, and the record at position k carries paper_id k and
\* original_index k - 1.
C15_MetadataIdsAttached ==
    Succeeded >= 2 =>
        /\ Len(extractedMetadata) = Len(inputPapers)
        /\ Len(extractedMetadata) = ExpectedPapers
        /\ \A k \in 1..Len(extractedMetadata) :
              /\ "paper_id" \in DOMAIN extractedMetadata[k]
              /\ "original_index" \in DOMAIN extractedMetadata[k]
              /\ extractedMetadata[k].paper_id = k
              /\ extractedMetadata[k].original_index = k - 1

\* The metadata record the last step pushed.
LastMetadata ==
    IF results # <<>> THEN results[Len(results)]
    ELSE extractedMetadata[Len(extractedMetadata)]
\* C16: for a metadata reply that does not parse, the record stored for
\* the paper has the paper's own title, the first 200 characters of its
\* abstract as abstract_summary, empty authors and keywords, and "Not
\* specified" in journal, year, research_domain, methodology, sample_size,
\* study_type, main_findings and limitations.
C16_FallbackMetadataFields ==
    (settled.task = "metadata" /\ settled.reply.kind = "unparsable") =>
        LET paper == inputPapers[settled.index + 1]
            rec == LastMetadata
        IN  /\ rec.title = paper.title
            /\ rec.abstract_summary = SubSeq(paper.abstract, 1, Min(200, Len(paper.abstract)))
            /\ rec.authors = <<>>
            /\ rec.keywords = <<>>
            /\ \A f \in {"journal", "year", "research_domain", "methodology", "sample_size",
                         "study_type", "main_findings", "limitations"} :
                  /\ f \in DOMAIN rec
                  /\ rec[f] = "Not specified"

\* C17: of two papers whose responses sum to 6, one in a tier (the tier
\* of 700 included) and one in none, the first is eligible, the second is
\* not, and the first scores strictly higher; each score is the score of
\* the tier plus 10 per Yes and 5 per Maybe.
C17_TierDominance ==
    \A p, q \in 1..Len(evaluationResults) :
        /\ Scored(p).is_eligible = InTier(p)
        /\ Scored(p).eligibility_score \in
              { base + 10 * CountOf(p, "Yes") + 5 * CountOf(p, "Maybe") :
                    base \in {0, 700, 800, 900, 1000} }
        /\ InTier(p) = (Scored(p).eligibility_score >= 700)
        /\ (InTier(p) /\ ~InTier(q))
              => Scored(p).eligibility_score > Scored(q).eligibility_score
\* A paper of the lowest tier (3 Yes, 2 Maybe) was selected ahead of a
\* paper with 2 Yes and 4 Maybe, with the scores 740 and 40.
C17_Witness ==
    /\ node = "responded"
    /\ CountOf(1, "Yes") = 2 /\ CountOf(1, "Maybe") = 4
    /\ CountOf(2, "Yes") = 3 /\ CountOf(2, "Maybe") = 2
    /\ SelectedWithScore(1) /\ SelectedWithScore(2)
    /\ response.selected_papers[1].paper_id = 2
    /\ response.selected_papers[1].eligibility_score = 740
    /\ response.selected_papers[2].eligibility_score = 40

\* C18: whatever the model answered to the evaluation prompts, the three
\* counts of every record agent 6 makes add up to 6, in the records it
\* scores, in the selection and in the response.
C18_TalliesSumToSix ==
    /\ \A k \in 1..Len(evaluationResults) :
          /\ Scored(k).yes_count + Scored(k).maybe_count + Scored(k).no_count = 6
          /\ Scored(k).yes_count = CountOf(k, "Yes")
          /\ Scored(k).maybe_count = CountOf(k, "Maybe")
          /\ Len(evaluationResults[k].evaluations) = 6
    /\ \A r \in 1..Len(finalSelectedPapers) :
          finalSelectedPapers[r].yes_count + finalSelectedPapers[r].maybe_count
             + finalSelectedPapers[r].no_count = 6
    /\ response.status = 200 =>
          \A r \in 1..Len(response.selected_papers) :
             response.selected_papers[r].criteria_results.yes_count
               + response.selected_papers[r].criteria_results.maybe_count
               + response.selected_papers[r].criteria_results.no_count = 6
\* The answer holds a paper whose responses were all outside Yes/Maybe/No,
\* counted as 6 No, and a paper that got the fallback, counted as 6 Maybe.
C18_Witness ==
    /\ node = "responded"
    /\ response.status = 200
    /\ \E r \in 1..Len(response.selected_papers) :
          /\ response.selected_papers[r].criteria_results.no_count = 6
          /\ response.selected_papers[r].detailed_evaluations[1].reasoning = "brief explanation"
    /\ \E r \in 1..Len(response.selected_papers) :
          /\ response.selected_papers[r].criteria_results.maybe_count = 6
          /\ response.selected_papers[r].detailed_evaluations[1].reasoning
                = "Evaluation failed, marked as Maybe"

\* C19: in the success response the selected papers carry the ranks 1..N,
\* each once and in the order of the list, and eligibility_score never
\* increases with the rank, also when the list is the eligible papers
\* followed by papers that are not eligible.
C19_RanksAndScoresOrdered ==
    (node = "responded" /\ response.status = 200) =>
        LET selected == response.selected_papers
        IN  /\ Len(selected) = response.selected_papers_count
            /\ \A r \in 1..Len(selected) : selected[r].rank = r
            /\ { selected[r].rank : r \in 1..Len(selected) } = 1..Len(selected)
            /\ \A r, s \in 1..Len(selected) :
                  selected[r].rank < selected[s].rank
                     => selected[r].eligibility_score >= selected[s].eligibility_score
            /\ \A r \in 1..Len(selected) :
                  /\ selected[r].paper_id = finalSelectedPapers[r].paper_id
                  /\ selected[r].eligibility_score = finalSelectedPapers[r].eligibility_score
\* The answer lists the only eligible paper at rank 1 and a paper that is
\* not eligible, filled in, at rank 2 with a lower score.
C19_Witness ==
    /\ node = "responded"
    /\ response.status = 200
    /\ Len(response.selected_papers) = TopN
    /\ Cardinality({ k \in 1..Len(evaluationResults) : InTier(k) }) = 1
    /\ finalSelectedPapers[1].is_eligible
    /\ ~finalSelectedPapers[2].is_eligible
    /\ response.selected_papers[1].rank = 1
    /\ response.selected_papers[2].rank = 2
    /\ response.selected_papers[1].eligibility_score
          > response.selected_papers[2].eligibility_score

\* C20: the errors list never holds more than one entry.  It is empty as
\* long as no stage has failed, so the errors of a success response are
\* empty; after a failure it holds one message, tagged with the number of
\* the stage that failed, currentStep still is the label of the last stage
\* that succeeded, and neither changes again.
C20_AtMostOneError ==
    /\ [](/\ Len(errors) <= 1
          /\ (errors = <<>>) = (thrown = NoError)
          /\ (errors = <<>>) = (node # "thrown" /\ response.status # 500)
          /\ response.status = 200 => response.errors = <<>>
          /\ errors # <<>> =>
                /\ errors[1].agent = Len(started)
                /\ errors[1].error = thrown
                /\ Succeeded = errors[1].agent - 1
                /\ node = "responded" => response = [status |-> 500, success |-> FALSE,
                                                     error |-> errors[1].error])
    /\ [][errors # <<>> => errors' = errors /\ currentStep' = currentStep]_vars
    /\ [][errors' # errors =>
            /\ errors = <<>>
            /\ currentStep' = currentStep
            /\ node' = "thrown"]_vars
\* The evaluation stage failed on a rejected call: one error, tagged 4,
\* under the label of the third stage, answered with the failure.
C20_Witness ==
    /\ node = "responded"
    /\ response.status = 500
    /\ Len(errors) = 1
    /\ errors[1].agent = 4
    /\ errors[1].error.kind = "model.invoke rejected"
    /\ currentStep = "Criteria Generated"

\* C21: the calls to the model are made one at a time and in the order of
\* the stages: never more than one call is awaited; the calls made so far
\* are the first calls of the list 'one metadata call per paper in input
\* order, the criteria call, one evaluation call per paper in input order';
\* a call is made only after every earlier call has settled and its result
\* is stored; a run that succeeds has made exactly 2 * ExpectedPapers + 1
\* calls (101 for 50 papers).
C21_CallsSequential ==
    /\ Len(pending) <= 1
    /\ Len(calls) <= 2 * ExpectedPapers + 1
    /\ \A k \in 1..Len(calls) :
          calls[k] = IF k <= ExpectedPapers THEN [task |-> "metadata", index |-> k - 1]
                     ELSE IF k = ExpectedPapers + 1 THEN [task |-> "criteria", index |-> 0]
                     ELSE [task |-> "evaluation", index |-> k - ExpectedPapers - 2]
    /\ pending # <<>> =>
          /\ pending[1] = calls[Len(calls)]
          /\ pending[1].task = "metadata" =>
                /\ node = "agent2"
                /\ Len(results) = pending[1].index
                /\ currentStep = "Input Processed"
          /\ pending[1].task = "criteria" =>
                /\ node = "agent3"
                /\ Len(extractedMetadata) = ExpectedPapers
                /\ currentStep = "Metadata Extracted"
          /\ pending[1].task = "evaluation" =>
                /\ node = "agent4"
                /\ Len(results) = pending[1].index
                /\ Len(generatedCriteria) = 6
                /\ currentStep = "Criteria Generated"
    /\ settled # NoReply =>
          /\ pending = <<>>
          /\ [task |-> settled.task, index |-> settled.index] = calls[Len(calls)]
    /\ response.status = 200 => Len(calls) = 2 * ExpectedPapers + 1
    /\ Succeeded >= 4 => Len(calls) = 2 * ExpectedPapers + 1
\* A run that succeeded after the 2 * ExpectedPapers + 1 calls, the last
\* of them the evaluation of the last paper.
C21_Witness ==
    /\ node = "responded"
    /\ response.status = 200
    /\ Len(calls) = 2 * ExpectedPapers + 1
    /\ calls[1] = [task |-> "metadata", index |-> 0]
    /\ calls[ExpectedPapers + 1].task = "criteria"
    /\ calls[Len(calls)] = [task |-> "evaluation", index |-> ExpectedPapers - 1]

====
